---- MODULE Spec2Model ----
(***************************************************************************)
(* A model of nxsimd's aligned allocator                                   *)
(* (include/nxsimd/memory/nx_aligned_allocator.hpp):                       *)
(*   - aligned_allocator<T, Align>::allocate / deallocate,                 *)
(*   - aligned_malloc / aligned_free and their build-time strategy,        *)
(*   - detail::nx_aligned_malloc / nx_aligned_free (portable fallback),    *)
(*   - get_alignment_offset.                                               *)
(* The platform heap is a byte-addressed arena; the platform primitives    *)
(* (malloc, _mm_malloc, posix_memalign, _aligned_malloc and their frees)   *)
(* are modelled by their documented contracts, the address they hand out   *)
(* being the environment's choice.                                         *)
(***************************************************************************)
EXTENDS Integers, Sequences, FiniteSets, TLC

(***************************************************************************)
(* Platform constants and bounds of the model.                             *)
(***************************************************************************)
\* sizeof(void*): the width of the back-pointer the fallback stores.
WordSize == 4
\* The alignment plain malloc guarantees for every block it returns.
MallocAlign == 4
\* Width of size_t in the model; every address of the arena is far below 2^SizeBits.
SizeBits == 16
\* The arena the platform allocators hand blocks out of is ArenaBase..MemTop-1.
ArenaBase == 4
MemTop == 16
\* At most MaxLive blocks are held by the caller at a time.
MaxLive == 2
\* allocate(n): n ranges over 0..MaxCount.
MaxCount == 1
\* sizeof(T) of the allocators instantiated.
ElemSizes == {1, 4}
\* Align of the allocators instantiated (powers of two, 1 included).
Aligns == {1, 4, 8}
\* get_alignment_offset inputs: addresses 0..MaxPtr, sizes 0..MaxSize,
\* block sizes 1..MaxBlock, element sizes 1..MaxElem.
MaxPtr == 16
MaxSize == 4
MaxBlock == 5
MaxElem == 4

VARIABLES
    flags,      \* the build flags, fixed at build time
    heap,       \* the platform heap: the set of live raw blocks
    mem,        \* the bytes of memory
    live,       \* the pointers allocate returned and the caller still holds
    corrupt,    \* the platform allocator was damaged or given a bad address
    last,       \* what the last allocate / deallocate did
    off         \* the last get_alignment_offset call and its result

vars == <<flags, heap, mem, live, corrupt, last, off>>

(***************************************************************************)
(* size_t arithmetic.                                                      *)
(***************************************************************************)
RECURSIVE Pow2(_)
Pow2(k) == IF k = 0 THEN 1 ELSE 2 * Pow2(k - 1)

SizeMod == Pow2(SizeBits)

SizeMax == SizeMod - 1

SizeT(x) == x % SizeMod

RECURSIVE BitAnd(_, _)
BitAnd(x, y) ==
    IF x = 0 \/ y = 0 THEN 0
    ELSE (x % 2) * (y % 2) + 2 * BitAnd(x \div 2, y \div 2)

BitNot(x) == SizeMax - x

Min(a, b) == IF a < b THEN a ELSE b

IsPow2(x) == x > 0 /\ BitAnd(x, x - 1) = 0

(***************************************************************************)
(* Memory: a machine word is WordSize bytes, little-endian.                *)
(***************************************************************************)
Addrs == 0 .. (MemTop - 1)

Byte(val, i) == (val \div Pow2(8 * i)) % 256

\* *(void**)at = val
StoreWord(m, at, val) ==
    [a \in DOMAIN m |->
        IF a >= at /\ a < at + WordSize THEN Byte(val, a - at) ELSE m[a]]

RECURSIVE LoadBytes(_, _, _)
LoadBytes(m, at, i) ==
    IF i = WordSize THEN 0
    ELSE (IF (at + i) \in DOMAIN m THEN m[at + i] ELSE 0) * Pow2(8 * i)
         + LoadBytes(m, at, i + 1)

\* *(void**)at
LoadWord(m, at) == LoadBytes(m, at, 0)

(***************************************************************************)
(* The platform heap.  A raw block is [start, len, by]: by names the       *)
(* family of the primitive that allocated it.  A zero-length block still   *)
(* has an address of its own.                                              *)
(***************************************************************************)
Extent(b) == b.start .. (b.start + (IF b.len = 0 THEN 1 ELSE b.len) - 1)

\* The addresses a platform primitive may hand out for len bytes aligned to al:
\* every primitive carves its blocks out of malloc's heap, so that none is
\* aligned to less than malloc's own guarantee.
Grantable(h, len, al) ==
    {r \in ArenaBase .. (MemTop - 1) :
        /\ al > 0
        /\ r % al = 0
        /\ r % MallocAlign = 0
        /\ r + len <= MemTop
        /\ \A b \in h : Extent(b) \cap Extent([start |-> r, len |-> len]) = {}}

\* The free routine that matches an allocation routine.
MatchingFree(by) ==
    CASE by = "malloc" -> "free"
      [] by = "_mm_malloc" -> "_mm_free"
      [] by = "posix_memalign" -> "free"
      [] by = "_aligned_malloc" -> "_aligned_free"

(***************************************************************************)
(* free leaves the bytes of the block it releases indeterminate; the model *)
(* fixes them at 0.                                                        *)
(***************************************************************************)
Scrub(m, blocks) ==
    [a \in DOMAIN m |-> IF \E b \in blocks : a \in Extent(b) THEN 0 ELSE m[a]]

(***************************************************************************)
(* Build-time selection (the #if chains of aligned_malloc, aligned_free).  *)
(***************************************************************************)
aligned_malloc_strategy ==
    IF flags.NX_MALLOC_ALREADY_ALIGNED THEN "already_aligned"
    ELSE IF flags.NX_HAS_MM_MALLOC THEN "mm_malloc"
    ELSE IF flags.NX_HAS_POSIX_MEMALIGN THEN "posix_memalign"
    ELSE IF flags.MSC_VER THEN "msvc"
    ELSE "fallback"

\* A variant of the second chain that tests the POSIX flag before the intrinsic's.
aligned_free_strategy_reordered ==
    IF flags.NX_MALLOC_ALREADY_ALIGNED THEN "already_aligned"
    ELSE IF flags.NX_HAS_POSIX_MEMALIGN THEN "posix_memalign"
    ELSE IF flags.NX_HAS_MM_MALLOC THEN "mm_malloc"
    ELSE IF flags.MSC_VER THEN "msvc"
    ELSE "fallback"

aligned_free_strategy ==
    IF flags.NX_MALLOC_ALREADY_ALIGNED THEN "already_aligned"
    ELSE IF flags.NX_HAS_MM_MALLOC THEN "mm_malloc"
    ELSE IF flags.NX_HAS_POSIX_MEMALIGN THEN "posix_memalign"
    ELSE IF flags.MSC_VER THEN "msvc"
    ELSE "fallback"

(***************************************************************************)
(* posix_memalign(memptr, alignment, size): EINVAL unless alignment is a   *)
(* power of two and a multiple of the pointer size.                        *)
(***************************************************************************)
posix_memalign_valid(alignment) ==
    IsPow2(alignment) /\ alignment % WordSize = 0

(***************************************************************************)
(* The request aligned_malloc(size, alignment) puts to the platform:       *)
(* [valid, len, al, by].  The POSIX branch calls                           *)
(* posix_memalign(&res, size, alignment): size lands in the alignment      *)
(* parameter and alignment in the size parameter.                          *)
(***************************************************************************)
platform_request(size, alignment) ==
    CASE aligned_malloc_strategy = "already_aligned" ->
            [valid |-> TRUE, len |-> size, al |-> MallocAlign, by |-> "malloc"]
      [] aligned_malloc_strategy = "mm_malloc" ->
            [valid |-> TRUE, len |-> size, al |-> alignment, by |-> "_mm_malloc"]
      [] aligned_malloc_strategy = "posix_memalign" ->
            [valid |-> posix_memalign_valid(size), len |-> alignment,
             al |-> size, by |-> "posix_memalign"]
      [] aligned_malloc_strategy = "msvc" ->
            [valid |-> TRUE, len |-> size, al |-> alignment, by |-> "_aligned_malloc"]
      [] aligned_malloc_strategy = "fallback" ->
            [valid |-> TRUE, len |-> SizeT(size + alignment), al |-> MallocAlign,
             by |-> "malloc"]

(***************************************************************************)
(* What the platform may answer to a request: null when the request is     *)
(* invalid or memory is exhausted, else any free, suitably aligned address *)
(* of the arena; malloc(0) may also answer null (implementation-defined).  *)
(***************************************************************************)
PlatformAnswer(h, req) ==
    {[r |-> 0, oom |-> TRUE]}
    \cup (IF ~req.valid THEN {[r |-> 0, oom |-> FALSE]}
          ELSE {[r |-> x, oom |-> FALSE] :
                    x \in Grantable(h, req.len, req.al)
                          \cup (IF req.len = 0 /\ req.by = "malloc" THEN {0} ELSE {})})

\* A variant that rounds the raw address up to the next boundary instead.
nx_aligned_address_roundup(ptr, alignment) ==
    SizeT(BitAnd(SizeT(ptr + alignment - 1), BitNot(SizeT(alignment - 1))))

(***************************************************************************)
(* detail::nx_aligned_malloc: the address computed from the raw block.     *)
(***************************************************************************)
nx_aligned_address(ptr, alignment) ==
    SizeT(BitAnd(ptr, BitNot(SizeT(alignment - 1))) + alignment)

\* detail::nx_aligned_malloc, given malloc's answer ptr.
nx_aligned_malloc(ptr, alignment) ==
    IF ptr # 0 THEN nx_aligned_address(ptr, alignment) ELSE 0

\* aligned_malloc(size, alignment), given the platform's answer r.
aligned_malloc(size, alignment, r) ==
    CASE aligned_malloc_strategy = "already_aligned" -> r
      [] aligned_malloc_strategy = "mm_malloc" -> r
      [] aligned_malloc_strategy = "posix_memalign" ->
            IF ~posix_memalign_valid(size) \/ r = 0 THEN 0 ELSE r
      [] aligned_malloc_strategy = "msvc" -> r
      [] aligned_malloc_strategy = "fallback" ->
            nx_aligned_malloc(r, alignment)

\* A variant of allocate that does not test the result.
allocate_unchecked(res) ==
    [threw |-> FALSE, res |-> res]

\* aligned_allocator::allocate, given aligned_malloc's result.
allocate(res) ==
    IF res = 0 THEN [threw |-> TRUE, res |-> 0]
    ELSE [threw |-> FALSE, res |-> res]

\* detail::nx_aligned_free: the address handed to free.
nx_aligned_free(m, ptr) ==
    IF ptr # 0 THEN LoadWord(m, ptr - WordSize) ELSE 0

\* aligned_free(ptr): the address handed to the platform's free routine.
aligned_free(m, ptr) ==
    IF aligned_free_strategy = "fallback" THEN nx_aligned_free(m, ptr)
    ELSE ptr

\* The platform routine aligned_free ends in.
platform_free_routine ==
    CASE aligned_free_strategy = "already_aligned" -> "free"
      [] aligned_free_strategy = "mm_malloc" -> "_mm_free"
      [] aligned_free_strategy = "posix_memalign" -> "free"
      [] aligned_free_strategy = "msvc" -> "_aligned_free"
      [] aligned_free_strategy = "fallback" -> "free"

(***************************************************************************)
(* State.                                                                  *)
(***************************************************************************)
NoOp ==
    [op |-> "none", n |-> 0, align |-> 0, size |-> 0, oom |-> FALSE,
     requests |-> 0, raw |-> 0, rawlen |-> 0, prim |-> 0, res |-> 0,
     threw |-> FALSE, added |-> {}, wordAt |-> -1, p |-> 0, own |-> 0,
     target |-> 0, released |-> {}, by |-> "", routine |-> ""]

NoOff ==
    [op |-> "none", p |-> 0, size |-> 0, block_size |-> 0, sz |-> 0, result |-> 0]

FlagSets ==
    [NX_MALLOC_ALREADY_ALIGNED : BOOLEAN, NX_HAS_MM_MALLOC : BOOLEAN,
     NX_HAS_POSIX_MEMALIGN : BOOLEAN, MSC_VER : BOOLEAN]

Init ==
    /\ flags \in FlagSets
    /\ heap = {}
    /\ mem = [a \in Addrs |-> 0]
    /\ live = {}
    /\ corrupt = FALSE
    /\ last = NoOp
    /\ off = NoOff

(***************************************************************************)
(* allocator.allocate(n) on aligned_allocator<T, A>, sizeof(T) = sz.       *)
(* NX_MALLOC_ALREADY_ALIGNED is only set for builds whose malloc already   *)
(* satisfies the alignment asked for.  The fallback stores the raw address *)
(* in the word before the result; when that word is not inside the raw     *)
(* block the store is undefined: it lands on the neighbouring bytes, or it *)
(* damages the platform allocator.                                         *)
(***************************************************************************)
Allocate ==
    /\ ~corrupt
    /\ Cardinality(live) < MaxLive
    /\ \E n \in 0 .. MaxCount, sz \in ElemSizes, A \in Aligns :
         LET size == SizeT(sz * n)
             req  == platform_request(size, A)
         IN  /\ flags.NX_MALLOC_ALREADY_ALIGNED => A <= MallocAlign
             /\ \E ans \in PlatformAnswer(heap, req) :
                  LET r      == ans.r
                      prim   == aligned_malloc(size, A, r)
                      out    == allocate(prim)
                      added  == IF r = 0 THEN {}
                                ELSE {[start |-> r, len |-> req.len, by |-> req.by]}
                      stores == aligned_malloc_strategy = "fallback" /\ r # 0
                      wordAt == prim - WordSize
                      inside == wordAt >= r /\ prim <= r + req.len
                  IN  \E landed \in (IF stores /\ ~inside THEN BOOLEAN ELSE {TRUE}) :
                      /\ heap' = heap \cup added
                      /\ mem' = IF stores /\ landed THEN StoreWord(mem, wordAt, r)
                                ELSE mem
                      /\ corrupt' = ~landed
                      /\ live' = IF out.threw THEN live
                                 ELSE live \cup {[ptr |-> out.res, own |-> r,
                                                  size |-> size, by |-> req.by]}
                      /\ last' = [NoOp EXCEPT !.op = "allocate", !.n = n,
                                    !.align = A, !.size = size, !.oom = ans.oom,
                                    !.requests = 1, !.raw = r, !.rawlen = req.len,
                                    !.prim = prim, !.res = out.res,
                                    !.threw = out.threw, !.added = added,
                                    !.wordAt = IF stores THEN wordAt ELSE -1,
                                    !.by = req.by]
    /\ UNCHANGED <<flags, off>>

(***************************************************************************)
(* allocator.deallocate(p, n) on a pointer the caller holds.  The platform *)
(* free routine releases the block that starts at the address it is given  *)
(* when its own family allocated it; any other non-null address damages    *)
(* the platform allocator.                                                 *)
(***************************************************************************)
Deallocate ==
    /\ ~corrupt
    /\ \E l \in live :
         LET target  == aligned_free(mem, l.ptr)
             routine == platform_free_routine
             hit     == {b \in heap : b.start = target /\ MatchingFree(b.by) = routine}
         IN  /\ heap' = heap \ hit
             /\ corrupt' = (target # 0 /\ hit = {})
             /\ mem' = Scrub(mem, hit)
             /\ live' = live \ {l}
             /\ last' = [NoOp EXCEPT !.op = "deallocate", !.p = l.ptr, !.own = l.own,
                           !.size = l.size,
                           !.target = target, !.released = hit, !.by = l.by,
                           !.routine = routine]
    /\ UNCHANGED <<flags, off>>

Next == Allocate \/ Deallocate

Spec == Init /\ [][Next]_vars

\* A variant of get_alignment_offset without the final clamp to size.
get_alignment_offset_unclamped(p, size, block_size, sz) ==
    IF block_size = 1 THEN 0
    ELSE IF BitAnd(p, SizeT(sz - 1)) # 0 THEN size
    ELSE LET block_mask == SizeT(block_size - 1)
         IN  BitAnd(SizeT(block_size - BitAnd(p \div sz, block_mask)), block_mask)

(***************************************************************************)
(* get_alignment_offset(p, size, block_size) for elements of sz bytes.     *)
(***************************************************************************)
get_alignment_offset(p, size, block_size, sz) ==
    IF block_size = 1 THEN 0
    ELSE IF BitAnd(p, SizeT(sz - 1)) # 0 THEN size
    ELSE LET block_mask == SizeT(block_size - 1)
         IN  Min(BitAnd(SizeT(block_size - BitAnd(p \div sz, block_mask)),
                        block_mask),
                 size)

GetAlignmentOffset ==
    /\ \E p \in 0 .. MaxPtr, size \in 0 .. MaxSize,
          block_size \in 1 .. MaxBlock, sz \in 1 .. MaxElem :
         off' = [op |-> "get_alignment_offset", p |-> p, size |-> size,
                 block_size |-> block_size, sz |-> sz,
                 result |-> get_alignment_offset(p, size, block_size, sz)]
    /\ UNCHANGED <<flags, heap, mem, live, corrupt, last>>

InitOffset ==
    /\ flags = [NX_MALLOC_ALREADY_ALIGNED |-> FALSE, NX_HAS_MM_MALLOC |-> FALSE,
                NX_HAS_POSIX_MEMALIGN |-> FALSE, MSC_VER |-> FALSE]
    /\ heap = {}
    /\ mem = [a \in Addrs |-> 0]
    /\ live = {}
    /\ corrupt = FALSE
    /\ last = NoOp
    /\ off = NoOff

NextOffset == GetAlignmentOffset

SpecOffset == InitOffset /\ [][NextOffset]_vars

(***************************************************************************)
(* Properties.                                                             *)
(***************************************************************************)
Fallback == aligned_malloc_strategy = "fallback"

Allocated == last.op = "allocate" /\ ~last.threw

\* C1: under every strategy a successful allocate(n) returns a non-null
\* pointer whose address is a multiple of Align.
C1_AllocateAligned ==
    Allocated => (last.res # 0 /\ last.res % last.align = 0)

\* C2: allocate(0) does not fail while the platform has memory: it returns a
\* non-null pointer aligned to Align, and deallocate(ptr, 0) of that pointer
\* releases exactly the block allocate(0) obtained.
C2_AllocateZero ==
    /\ (last.op = "allocate" /\ last.n = 0 /\ ~last.oom) =>
            (~last.threw /\ last.res # 0 /\ last.res % last.align = 0)
    /\ (last.op = "deallocate" /\ last.size = 0) =>
            (/\ last.released # {}
             /\ \A b \in last.released : b.start = last.own)

\* C3: allocate(n) puts exactly one request to aligned_malloc; it throws
\* exactly when that request returned null, returns the primitive's pointer
\* otherwise, and a failed call leaves no block allocated.
C3_AllocateOnce ==
    last.op = "allocate" =>
        /\ last.requests = 1
        /\ last.threw <=> (last.prim = 0)
        /\ ~last.threw => (last.res = last.prim /\ last.res # 0)
        /\ last.threw => last.added = {}

\* C3's case: a call fails while the caller holds an earlier block.
C3_Witness ==
    last.op = "allocate" /\ last.threw /\ last.prim = 0 /\ live # {} /\ heap # {}

\* C4: in the fallback, as long as the platform allocator is undamaged, the
\* word before every live pointer holds the address of the raw block of that
\* pointer's own allocation, which is live; a deallocate releases exactly
\* that block; and once every pointer is freed no raw block remains.
C4_BackPointer ==
    (Fallback /\ ~corrupt) =>
        /\ \A l \in live :
              /\ LoadWord(mem, l.ptr - WordSize) = l.own
              /\ \E b \in heap : b.start = l.own
        /\ last.op = "deallocate" =>
              (/\ last.target = last.own
               /\ last.released # {}
               /\ \A b \in last.released : b.start = last.own)
        /\ live = {} => heap = {}

\* C8: in the fallback, for every size and every power-of-two alignment, the
\* word written before the returned address q and the caller's region
\* [q, q + size) lie inside the raw block [r, r + size + alignment).
C8_WritesInsideBlock ==
    (Fallback /\ last.op = "allocate" /\ last.raw # 0) =>
        /\ last.wordAt >= last.raw
        /\ last.wordAt + WordSize <= last.raw + last.size + last.align
        /\ last.prim >= last.raw
        /\ last.prim + last.size <= last.raw + last.size + last.align

\* C9 as stated: the fallback returns the first multiple of alignment that
\* is >= the raw address r, also when r is itself a multiple.
C9_FirstAtOrAbove ==
    (Fallback /\ last.op = "allocate" /\ last.raw # 0) =>
        /\ last.prim % last.align = 0
        /\ last.prim >= last.raw
        /\ last.prim - last.align < last.raw

\* C9 amended: the fallback returns the first multiple of alignment that is
\* strictly greater than the raw address r (r + alignment when r is itself
\* a multiple).
C9_FirstStrictlyAbove ==
    (Fallback /\ last.op = "allocate" /\ last.raw # 0) =>
        /\ last.prim % last.align = 0
        /\ last.prim > last.raw
        /\ last.prim - last.align <= last.raw

\* C9's case: the raw address is already a multiple of an alignment
\* larger than malloc's own.
C9_Witness ==
    /\ Fallback /\ last.op = "allocate" /\ last.raw # 0
    /\ last.align > MallocAlign
    /\ last.raw % last.align = 0
    /\ last.prim = last.raw + last.align

\* The precedence of the strategies and the flag of each.
Precedence == <<"already_aligned", "mm_malloc", "posix_memalign", "msvc">>

FlagOf(s) ==
    CASE s = "already_aligned" -> flags.NX_MALLOC_ALREADY_ALIGNED
      [] s = "mm_malloc" -> flags.NX_HAS_MM_MALLOC
      [] s = "posix_memalign" -> flags.NX_HAS_POSIX_MEMALIGN
      [] s = "msvc" -> flags.MSC_VER

FirstSet ==
    IF \E i \in 1 .. Len(Precedence) : FlagOf(Precedence[i])
    THEN Precedence[CHOOSE i \in 1 .. Len(Precedence) :
                        /\ FlagOf(Precedence[i])
                        /\ \A j \in 1 .. (i - 1) : ~FlagOf(Precedence[j])]
    ELSE "fallback"

\* C10: for every combination of the build flags aligned_malloc and
\* aligned_free select the same strategy, the first in precedence whose flag
\* is set (the fallback when none is), so that every block is released by
\* the free routine that matches the routine that allocated it.
C10_SameStrategy ==
    /\ aligned_malloc_strategy = FirstSet
    /\ aligned_free_strategy = aligned_malloc_strategy
    /\ last.op = "deallocate" => last.routine = MatchingFree(last.by)

\* C10's case: several flags are set, the intrinsic's among them, and a
\* block has been released.
C10_Witness ==
    /\ ~flags.NX_MALLOC_ALREADY_ALIGNED
    /\ flags.NX_HAS_MM_MALLOC /\ flags.NX_HAS_POSIX_MEMALIGN /\ flags.MSC_VER
    /\ last.op = "deallocate" /\ last.released # {}

Called == off.op = "get_alignment_offset"

\* C5: for every pointer, size and block_size >= 1 the result of
\* get_alignment_offset lies in 0 .. size.
C5_OffsetInRange ==
    Called => (off.result >= 0 /\ off.result <= off.size)

\* C5's case: the generic branch with an array shorter than the distance to
\* the next block boundary, so that the clamp decides the result.
C5_Witness ==
    /\ Called /\ off.block_size = 4 /\ off.sz = 4 /\ off.p = 4
    /\ off.size = 2 /\ off.result = 2

\* C6: for block_size > 1 and a pointer whose address is not a multiple of
\* sizeof(T) the result is size.
C6_MisalignedIsSize ==
    (Called /\ off.block_size > 1 /\ off.p % off.sz # 0) =>
        off.result = off.size

\* C7: for block_size > 1 and a pointer whose address is a multiple of
\* sizeof(T) the result is min((block_size - index mod block_size) mod
\* block_size, size), index being address / sizeof(T).
C7_GenericFormula ==
    (Called /\ off.block_size > 1 /\ off.p % off.sz = 0) =>
        off.result = Min((off.block_size - ((off.p \div off.sz) % off.block_size))
                            % off.block_size,
                         off.size)

====
